---- MODULE Spec2Model ----
(***************************************************************************)
(* A model of the arc-lang tree-walking interpreter                        *)
(* (crates/runtime/src/interpreter.rs, crates/frontend/src/ast/stmt.rs).   *)
(*                                                                         *)
(* The interpreter is a recursive descent over the syntax tree, so every   *)
(* visit_* method is an operator that takes the node and the interpreter   *)
(* state and returns the new state and an InterpRes, the recursion going   *)
(* through Stmt::accept and Expr::accept.  The                             *)
(* state machine around it is Interpreter::new followed by one call of     *)
(* interpret, which visits the top-level statements one per step.          *)
(*                                                                         *)
(* Environment, value model and Callable live in files that are not part   *)
(* of the sources at hand (environment.rs, values.rs, callable.rs,         *)
(* native_functions.rs); they are modelled from the specification.         *)
(***************************************************************************)
EXTENDS Integers, Sequences, FiniteSets, TLC

\* ------------------------------------------------------------------------
\* Machine integers.  RtVal's Int and ForRange's start/end are i64.  TLC's
\* integers are 32 bits wide, so the width is scaled down to IntBits; every
\* place where the code adds to an i64 goes through CheckedAdd below.
\* ------------------------------------------------------------------------
IntBits == 16

IntMin == -(2 ^ (IntBits - 1))

IntMax == (2 ^ (IntBits - 1)) - 1

WrapInt(x) == ((x - IntMin) % (2 ^ IntBits)) + IntMin

InRange(x) == IntMin <= x /\ x <= IntMax

\* The two build profiles of a Rust crate: "debug" traps on integer
\* overflow (the thread panics), "release" wraps two's complement.
Builds == {"debug", "release"}

\* Option<T>: None is the empty sequence, Some(x) the one-element sequence.
None == <<>>

Some(x) == <<x>>

\* ------------------------------------------------------------------------
\* Runtime values (RtVal / RtValKind).
\* ------------------------------------------------------------------------
Null == [kind |-> "Null", v |-> 0]

IntVal(n) == [kind |-> "Int", v |-> n]

RealVal(n) == [kind |-> "Real", v |-> n]

StrVal(s) == [kind |-> "Str", v |-> s]

BoolVal(b) == [kind |-> "Bool", v |-> b]

\* RtVal::new_fn(&stmt, env): parameter names, body and the captured frame
\* (a reference into the heap of frames, not a copy of the frame).
FuncVal(stmt, closure) ==
    [kind |-> "Func",
     v |-> [name |-> stmt.name, params |-> stmt.params, body |-> stmt.body,
            closure |-> closure]]

NativeFnVal(name) == [kind |-> "NativeFn", v |-> name]

\* ------------------------------------------------------------------------
\* InterpRes = Result<RtVal, PhyResult<InterpErr>>.
\*   ok   : Ok(val) or Err
\*   err  : the InterpErr variant
\*   val  : the Ok value, or the payload of InterpErr::Return
\*   a, b : the two counts of InterpErr::WrongArgsNb
\*   msg  : the String payload of the variants that carry one
\*   loc  : PhyResult's Option<Loc>; 0 is None
\* A panic of the Rust thread is not an InterpErr; it is carried as
\* err = "Panic" and is neither caught nor wrapped by any handler.
\* ------------------------------------------------------------------------
Ok(v) == [ok |-> TRUE, val |-> v, err |-> "", a |-> 0, b |-> 0, msg |-> "", loc |-> 0]

Err(kind, msg, loc) ==
    [ok |-> FALSE, val |-> Null, err |-> kind, a |-> 0, b |-> 0, msg |-> msg, loc |-> loc]

ErrReturn(v) ==
    [ok |-> FALSE, val |-> v, err |-> "Return", a |-> 0, b |-> 0, msg |-> "", loc |-> 0]

ErrWrongArgsNb(n, m, loc) ==
    [ok |-> FALSE, val |-> Null, err |-> "WrongArgsNb", a |-> n, b |-> m, msg |-> "", loc |-> loc]

Panic == [ok |-> FALSE, val |-> Null, err |-> "Panic", a |-> 0, b |-> 0, msg |-> "", loc |-> 0]

IsPanic(res) == ~res.ok /\ res.err = "Panic"

\* What a visit returns: the interpreter state after it and its InterpRes.
R(st, res) == [st |-> st, res |-> res]

\* i64 addition as the build performs it.
CheckedAdd(x, y, build) ==
    IF InRange(x + y) THEN [ok |-> TRUE, v |-> x + y]
    ELSE IF build = "debug" THEN [ok |-> FALSE, v |-> 0]
    ELSE [ok |-> TRUE, v |-> WrapInt(x + y)]

\* ------------------------------------------------------------------------
\* Environment (environment.rs): a heap of frames, each a table of bindings
\* and an optional parent.  A frame reference (Rc<RefCell<Env>>) is an
\* index into the heap; parent 0 is None.
\* ------------------------------------------------------------------------
EnvNew(parent) == [vars |-> <<>>, parent |-> parent]

declare_var(heap, f, name, value) ==
    IF name \in DOMAIN heap[f].vars
    THEN [ok |-> FALSE, heap |-> heap]
    ELSE [ok |-> TRUE, heap |-> [heap EXCEPT ![f].vars = (name :> value) @@ @]]

RECURSIVE get_var(_, _, _)
get_var(heap, f, name) ==
    IF name \in DOMAIN heap[f].vars THEN [ok |-> TRUE, val |-> heap[f].vars[name]]
    ELSE IF heap[f].parent = 0 THEN [ok |-> FALSE, val |-> Null]
    ELSE get_var(heap, heap[f].parent, name)

RECURSIVE assign(_, _, _, _)
assign(heap, f, name, value) ==
    IF name \in DOMAIN heap[f].vars
    THEN [ok |-> TRUE, heap |-> [heap EXCEPT ![f].vars[name] = value]]
    ELSE IF heap[f].parent = 0 THEN [ok |-> FALSE, heap |-> heap]
    ELSE assign(heap, heap[f].parent, name, value)

\* The frame in which `name` resolves when looked up from frame f (0: none).
RECURSIVE FrameOf(_, _, _)
FrameOf(heap, f, name) ==
    IF name \in DOMAIN heap[f].vars THEN f
    ELSE IF heap[f].parent = 0 THEN 0
    ELSE FrameOf(heap, heap[f].parent, name)

\* ------------------------------------------------------------------------
\* Value model (values.rs): operate and negate.
\* ------------------------------------------------------------------------
RECURSIVE Repeat(_, _)
Repeat(s, n) == IF n <= 0 THEN "" ELSE s \o Repeat(s, n - 1)

Numeric(val) == val.kind \in {"Int", "Real"}

Arith(x, y, op) ==
    CASE op = "+" -> x + y
      [] op = "-" -> x - y
      [] op = "*" -> x * y

Compare(x, y, op) ==
    CASE op = "==" -> x = y
      [] op = "!=" -> x # y
      [] op = "<"  -> x < y
      [] op = "<=" -> x <= y
      [] op = ">"  -> x > y
      [] op = ">=" -> x >= y

ArithOps == {"+", "-", "*"}

CompareOps == {"==", "!=", "<", "<=", ">", ">="}

\* operate(self, other, operator): arithmetic and comparison on numbers
\* (Int with Int stays Int and is i64 arithmetic as the build performs it, a
\* Real operand makes the result Real), string repetition by an Int in
\* either order, string concatenation; any other combination is an
\* operation error.
operate(lhs, rhs, op, build) ==
    IF Numeric(lhs) /\ Numeric(rhs) /\ op \in ArithOps THEN
        LET exact == Arith(lhs.v, rhs.v, op)
        IN  IF lhs.kind = "Real" \/ rhs.kind = "Real" THEN Ok(RealVal(exact))
            ELSE IF InRange(exact) THEN Ok(IntVal(exact))
            ELSE IF build = "debug" THEN Panic
            ELSE Ok(IntVal(WrapInt(exact)))
    ELSE IF Numeric(lhs) /\ Numeric(rhs) /\ op \in CompareOps THEN
        Ok(BoolVal(Compare(lhs.v, rhs.v, op)))
    ELSE IF lhs.kind = "Str" /\ rhs.kind = "Int" /\ op = "*" THEN
        Ok(StrVal(Repeat(lhs.v, rhs.v)))
    ELSE IF lhs.kind = "Int" /\ rhs.kind = "Str" /\ op = "*" THEN
        Ok(StrVal(Repeat(rhs.v, lhs.v)))
    ELSE IF lhs.kind = "Str" /\ rhs.kind = "Str" /\ op = "+" THEN
        Ok(StrVal(lhs.v \o rhs.v))
    ELSE Err("OperationEvaluation", "operation", 0)

\* negate(self): arithmetic negation of Int/Real, logical not of Bool, an
\* error on every other kind.  The call in visit_unary_expr passes no
\* operator, so the operand's kind alone selects the behaviour.
negate(val, build) ==
    IF val.kind = "Real" THEN Ok(RealVal(-val.v))
    ELSE IF val.kind = "Int" THEN
        IF InRange(-val.v) THEN Ok(IntVal(-val.v))
        ELSE IF build = "debug" THEN Panic
        ELSE Ok(IntVal(WrapInt(-val.v)))
    ELSE IF val.kind = "Bool" THEN Ok(BoolVal(~val.v))
    ELSE Err("Negation", "negation", 0)

\* ------------------------------------------------------------------------
\* Syntax tree.  Statements are the structs of ast/stmt.rs; expressions carry
\* the fields the visit_* methods read.  Every node has its source location
\* `loc`, a positive number that is unique within a program.
\* ------------------------------------------------------------------------
ExprStmt(loc, expr) == [kind |-> "Expr", expr |-> expr, loc |-> loc]

PrintStmt(loc, expr) == [kind |-> "Print", expr |-> expr, loc |-> loc]

BlockStmt(loc, stmts) == [kind |-> "Block", stmts |-> stmts, loc |-> loc]

VarDeclStmt(loc, name, value) ==
    [kind |-> "VarDecl", name |-> name, value |-> value, loc |-> loc]

IfStmt(loc, condition, then_branch, else_branch) ==
    [kind |-> "If", condition |-> condition, then_branch |-> then_branch,
     else_branch |-> else_branch, loc |-> loc]

WhileStmt(loc, condition, body) ==
    [kind |-> "While", condition |-> condition, body |-> body, loc |-> loc]

ForRange(start, end) == [start |-> start, end |-> end]

ForStmt(loc, placeholder, range, body) ==
    [kind |-> "For", placeholder |-> placeholder, range |-> range, body |-> body,
     loc |-> loc]

FnDeclStmt(loc, name, params, body) ==
    [kind |-> "FnDecl", name |-> name, params |-> params, body |-> body, loc |-> loc]

ReturnStmt(loc, value) == [kind |-> "Return", value |-> value, loc |-> loc]

BinaryExpr(loc, left, operator, right) ==
    [kind |-> "Binary", left |-> left, operator |-> operator, right |-> right,
     loc |-> loc]

AssignExpr(loc, name, value) ==
    [kind |-> "Assign", name |-> name, value |-> value, loc |-> loc]

GroupingExpr(loc, expr) == [kind |-> "Grouping", expr |-> expr, loc |-> loc]

IntLiteralExpr(loc, value) == [kind |-> "IntLiteral", value |-> value, loc |-> loc]

RealLiteralExpr(loc, value) == [kind |-> "RealLiteral", value |-> value, loc |-> loc]

StrLiteralExpr(loc, value) == [kind |-> "StrLiteral", value |-> value, loc |-> loc]

IdentifierExpr(loc, name) == [kind |-> "Identifier", name |-> name, loc |-> loc]

UnaryExpr(loc, operator, right) ==
    [kind |-> "Unary", operator |-> operator, right |-> right, loc |-> loc]

LogicalExpr(loc, left, operator, right) ==
    [kind |-> "Logical", left |-> left, operator |-> operator, right |-> right,
     loc |-> loc]

CallExpr(loc, callee, args) ==
    [kind |-> "Call", callee |-> callee, args |-> args, loc |-> loc]

\* ------------------------------------------------------------------------
\* The interpreter state a visit works on:
\*   heap  : the frames allocated so far
\*   env   : Interpreter.env, the active frame
\*   build : the build profile
\*   trace : the observable history of the run (see Event)
\*   act   : the activation being executed, 0 for the top level; nact counts
\*           the activations created so far.
\* ------------------------------------------------------------------------
Event(ev, loc, act, val, info, n, m) ==
    [ev |-> ev, loc |-> loc, act |-> act, val |-> val, info |-> info, n |-> n, m |-> m]

Log(st, e) == [st EXCEPT !.trace = Append(@, e)]

RECURSIVE stmt_accept(_, _)
RECURSIVE expr_accept(_, _)
RECURSIVE execute_block_stmt(_, _, _)
RECURSIVE visit_while_stmt(_, _)
RECURSIVE ForIterations(_, _, _, _)
RECURSIVE BlockStatements(_, _, _, _)
RECURSIVE EvalArgs(_, _, _, _)

\* ------------------------------------------------------------------------
\* impl VisitStmt for Interpreter.  A method that goes on after a nested
\* visit is written as the visit followed by the rest of the method, the
\* rest being an operator of its own that takes the visit's outcome.
\* ------------------------------------------------------------------------
visit_expr_stmt(stmt, st) == expr_accept(stmt.expr, st)

\* `let value = stmt.expr.accept(self)?; println!(..); Ok(null)`
visit_print_stmt_value(stmt, r) ==
    IF ~r.res.ok THEN r
    ELSE R(Log(r.st, Event("print", stmt.loc, r.st.act, r.res.val, "", 0, 0)),
           Ok(Null))

visit_print_stmt(stmt, st) == visit_print_stmt_value(stmt, expr_accept(stmt.expr, st))

\* `self.env.borrow_mut().declare_var(name, value).map_err(..)?; Ok(null)`
visit_var_decl_stmt_declare(stmt, r) ==
    IF ~r.res.ok THEN r
    ELSE LET d == declare_var(r.st.heap, r.st.env, stmt.name, r.res.val)
         IN  IF ~d.ok THEN R(r.st, Err("VarDeclEnv", stmt.name, stmt.loc))
             ELSE R([r.st EXCEPT !.heap = d.heap], Ok(Null))

visit_var_decl_stmt(stmt, st) ==
    visit_var_decl_stmt_declare(stmt,
        IF Len(stmt.value) > 0 THEN expr_accept(stmt.value[1], st)
        ELSE R(st, Ok(Null)))

\* visit_block_stmt handing on the block's own result.
visit_block_stmt_Surface(stmt, st) ==
    execute_block_stmt(stmt.stmts, EnvNew(st.env), st)

\* `self.execute_block_stmt(..)?; Ok(RtVal::new_null())`
visit_block_stmt_result(r) == IF ~r.res.ok THEN r ELSE R(r.st, Ok(Null))

visit_block_stmt(stmt, st) ==
    visit_block_stmt_result(execute_block_stmt(stmt.stmts, EnvNew(st.env), st))

\* `match cond.value { BoolVal(b) => .., _ => Err(NonBoolIfCond) }`
visit_if_stmt_branch(stmt, c) ==
    IF ~c.res.ok THEN c
    ELSE IF c.res.val.kind = "Bool" THEN
        IF c.res.val.v
        THEN IF Len(stmt.then_branch) > 0
             THEN stmt_accept(stmt.then_branch[1], c.st)
             ELSE R(c.st, Ok(Null))
        ELSE IF Len(stmt.else_branch) > 0
             THEN stmt_accept(stmt.else_branch[1], c.st)
             ELSE R(c.st, Ok(Null))
    ELSE R(c.st, Err("NonBoolIfCond", "", stmt.loc))

visit_if_stmt(stmt, st) == visit_if_stmt_branch(stmt, expr_accept(stmt.condition, st))

\* `stmt.body.accept(self)?;` and the next turn of `loop`.
visit_while_stmt_next(stmt, b) ==
    IF ~b.res.ok THEN b ELSE visit_while_stmt(stmt, b.st)

\* visit_while_stmt ending the loop on a condition that is not a Bool.
visit_while_stmt_turn_Lenient(stmt, c) ==
    IF ~c.res.ok THEN c
    ELSE IF c.res.val.kind = "Bool" /\ c.res.val.v
    THEN visit_while_stmt_next(stmt, stmt_accept(stmt.body, c.st))
    ELSE R(c.st, Ok(Null))

visit_while_stmt_Lenient(stmt, st) ==
    visit_while_stmt_turn_Lenient(stmt, expr_accept(stmt.condition, st))

\* `match cond.value { BoolVal(true) => body, BoolVal(false) => break,
\*  _ => return Err(NonBoolWhileCond) }`
visit_while_stmt_turn(stmt, c) ==
    IF ~c.res.ok THEN c
    ELSE IF c.res.val.kind = "Bool" THEN
        IF c.res.val.v
        THEN visit_while_stmt_next(stmt, stmt_accept(stmt.body, c.st))
        ELSE R(c.st, Ok(Null))
    ELSE R(c.st, Err("NonBoolWhileCond", "", stmt.loc))

\* One turn of `loop { .. }`; the next turn is the recursive use.
visit_while_stmt(stmt, st) ==
    visit_while_stmt_turn(stmt, expr_accept(stmt.condition, st))

\* The loop of visit_for_stmt with a frame of its own for every iteration,
\* the placeholder declared in it.
RECURSIVE ForIterations_Fresh(_, _, _, _)
ForIterations_Fresh_next(stmt, i, hi, prev_env, b) ==
    IF ~b.res.ok THEN b
    ELSE ForIterations_Fresh(stmt, i + 1, hi, [b.st EXCEPT !.env = prev_env])

ForIterations_Fresh(stmt, i, hi, st) ==
    IF i >= hi THEN R(st, Ok(Null))
    ELSE ForIterations_Fresh_next(stmt, i, hi, st.env,
             stmt_accept(stmt.body,
                 [st EXCEPT !.heap = Append(st.heap,
                                        [vars |-> (stmt.placeholder.name :> IntVal(i)),
                                         parent |-> st.env]),
                            !.env = Len(st.heap) + 1]))

\* The loop of visit_for_stmt going through the rest of the range after
\* the body has failed or returned, and handing on that result afterwards.
ForIterations_next_Continue(stmt, i, hi, b) ==
    LET rest == ForIterations(stmt, i + 1, hi, b.st)
    IN  IF ~b.res.ok THEN R(rest.st, b.res) ELSE rest

\* `stmt.body.accept(self)?;` and the next value of the range.
ForIterations_next(stmt, i, hi, b) ==
    IF ~b.res.ok THEN b ELSE ForIterations(stmt, i + 1, hi, b.st)

\* `for i in range { assign; body }` over the half-open Rust range lo..hi.
ForIterations(stmt, i, hi, st) ==
    IF i >= hi THEN R(st, Ok(Null))
    ELSE LET a == assign(st.heap, st.env, stmt.placeholder.name, IntVal(i))
         IN  IF ~a.ok THEN R(st, Err("ForLoop", stmt.placeholder.name, stmt.loc))
             ELSE ForIterations_next(stmt, i, hi,
                      stmt_accept(stmt.body, [st EXCEPT !.heap = a.heap]))

\* `self.env.replace(prev_env); Ok(RtVal::new_null())`, reached only when
\* no `?` of the loop has returned before.
visit_for_stmt_exit(prev_env, l) ==
    IF ~l.res.ok THEN l
    ELSE R([l.st EXCEPT !.env = prev_env], Ok(Null))

\* The range: `0..start+1` without an end, `start..end+1` with one.
visit_for_stmt_range(stmt, prev_env, d) ==
    IF ~d.res.ok THEN d
    ELSE LET s1 == CheckedAdd(stmt.range.start, 1, d.st.build)
         IN  IF ~s1.ok THEN R(d.st, Panic)
             ELSE LET e1 == IF Len(stmt.range.end) > 0
                            THEN CheckedAdd(stmt.range.end[1], 1, d.st.build)
                            ELSE s1
                      lo == IF Len(stmt.range.end) > 0 THEN stmt.range.start ELSE 0
                  IN  IF ~e1.ok THEN R(d.st, Panic)
                      ELSE visit_for_stmt_exit(prev_env,
                               ForIterations(stmt, lo, e1.v, d.st))

visit_for_stmt(stmt, st) ==
    visit_for_stmt_range(stmt, st.env,
        visit_var_decl_stmt(stmt.placeholder,
            [st EXCEPT !.heap = Append(st.heap, EnvNew(st.env)),
                       !.env = Len(st.heap) + 1]))

\* visit_fn_decl_stmt closing over a copy of the active frame.
visit_fn_decl_stmt_Snapshot(stmt, st) ==
    LET heap1 == Append(st.heap, st.heap[st.env])
        d == declare_var(heap1, st.env, stmt.name, FuncVal(stmt, Len(heap1)))
    IN  IF ~d.ok THEN R(st, Err("VarDeclEnv", stmt.name, stmt.loc))
        ELSE R([st EXCEPT !.heap = d.heap], Ok(Null))

visit_fn_decl_stmt(stmt, st) ==
    LET func == FuncVal(stmt, st.env)
        d == declare_var(st.heap, st.env, stmt.name, func)
    IN  IF ~d.ok THEN R(st, Err("VarDeclEnv", stmt.name, stmt.loc))
        ELSE R([st EXCEPT !.heap = d.heap], Ok(Null))

\* `Err(PhyResult::new(InterpErr::Return(value), None))`
visit_return_stmt_value(stmt, r) ==
    IF ~r.res.ok THEN r
    ELSE R(Log(r.st, Event("return", stmt.loc, r.st.act, r.res.val, "", 0, 0)),
           ErrReturn(r.res.val))

visit_return_stmt(stmt, st) ==
    visit_return_stmt_value(stmt,
        IF Len(stmt.value) > 0 THEN expr_accept(stmt.value[1], st)
        ELSE R(st, Ok(Null)))

\* Stmt::accept: the dispatch on the statement's variant.
stmt_accept(stmt, st) ==
    LET s == Log(st, Event("stmt", stmt.loc, st.act, Null, stmt.kind, 0, 0))
    IN  CASE stmt.kind = "Expr" -> visit_expr_stmt(stmt, s)
          [] stmt.kind = "Print" -> visit_print_stmt(stmt, s)
          [] stmt.kind = "VarDecl" -> visit_var_decl_stmt(stmt, s)
          [] stmt.kind = "Block" -> visit_block_stmt(stmt, s)
          [] stmt.kind = "If" -> visit_if_stmt(stmt, s)
          [] stmt.kind = "While" -> visit_while_stmt(stmt, s)
          [] stmt.kind = "For" -> visit_for_stmt(stmt, s)
          [] stmt.kind = "FnDecl" -> visit_fn_decl_stmt(stmt, s)
          [] stmt.kind = "Return" -> visit_return_stmt(stmt, s)

\* ------------------------------------------------------------------------
\* Interpreter::execute_block_stmt
\* ------------------------------------------------------------------------
\* `res = s.accept(self); if res.is_err() { break }`
BlockStatements_next(stmts, i, r) ==
    IF ~r.res.ok THEN r ELSE BlockStatements(stmts, i + 1, r.st, r.res)

BlockStatements(stmts, i, st, res) ==
    IF i > Len(stmts) THEN R(st, res)
    ELSE BlockStatements_next(stmts, i, stmt_accept(stmts[i], st))

\* `self.env.replace(prev_env); res`; a panic unwinds past it.
execute_block_stmt_restore(prev_env, r) ==
    IF IsPanic(r.res) THEN r
    ELSE R([r.st EXCEPT !.env = prev_env], r.res)

execute_block_stmt(stmts, new_env, st) ==
    execute_block_stmt_restore(st.env,
        BlockStatements(stmts, 1,
            [st EXCEPT !.heap = Append(st.heap, new_env), !.env = Len(st.heap) + 1],
            Ok(Null)))

\* ------------------------------------------------------------------------
\* impl VisitExpr for Interpreter
\* ------------------------------------------------------------------------
\* The check of the right operand and `lhs.operate(&rhs, &expr.operator)`.
visit_binary_expr_operate(expr, l, r) ==
    IF ~r.res.ok THEN r
    ELSE IF r.res.val = Null
    THEN R(r.st, Err("UninitializedValue", "", expr.right.loc))
    ELSE LET o == operate(l.res.val, r.res.val, expr.operator, r.st.build)
             s == Log(r.st, Event("operate", expr.loc, r.st.act, Null,
                                  expr.operator, 0, 0))
         IN  IF o.ok \/ IsPanic(o) THEN R(s, o)
             ELSE R(s, Err("OperationEvaluation", o.msg, expr.loc))

\* visit_binary_expr evaluating both operands before the Null checks.
visit_binary_expr_checks_Eager(expr, l, r) ==
    IF ~r.res.ok THEN r
    ELSE IF l.res.val = Null
    THEN R(r.st, Err("UninitializedValue", "", expr.left.loc))
    ELSE visit_binary_expr_operate(expr, l, r)

visit_binary_expr_right_Eager(expr, l) ==
    IF ~l.res.ok THEN l
    ELSE visit_binary_expr_checks_Eager(expr, l, expr_accept(expr.right, l.st))

visit_binary_expr_Eager(expr, st) ==
    visit_binary_expr_right_Eager(expr, expr_accept(expr.left, st))

\* The check of the left operand, then `expr.right.accept(self)?`.
visit_binary_expr_right(expr, l) ==
    IF ~l.res.ok THEN l
    ELSE IF l.res.val = Null
    THEN R(l.st, Err("UninitializedValue", "", expr.left.loc))
    ELSE visit_binary_expr_operate(expr, l, expr_accept(expr.right, l.st))

visit_binary_expr(expr, st) ==
    visit_binary_expr_right(expr, expr_accept(expr.left, st))

\* `self.env.borrow_mut().assign(name, value).map_err(..)?; Ok(null)`
visit_assign_expr_assign(expr, r) ==
    IF ~r.res.ok THEN r
    ELSE LET a == assign(r.st.heap, r.st.env, expr.name, r.res.val)
         IN  IF ~a.ok THEN R(r.st, Err("AssignEnv", expr.name, expr.loc))
             ELSE R([r.st EXCEPT !.heap = a.heap], Ok(Null))

visit_assign_expr(expr, st) ==
    visit_assign_expr_assign(expr, expr_accept(expr.value, st))

visit_grouping_expr(expr, st) == expr_accept(expr.expr, st)

visit_int_literal_expr(expr, st) == R(st, Ok(IntVal(expr.value)))

visit_real_literal_expr(expr, st) == R(st, Ok(RealVal(expr.value)))

visit_str_literal_expr(expr, st) == R(st, Ok(StrVal(expr.value)))

visit_identifier_expr(expr, st) ==
    CASE expr.name = "true" -> R(st, Ok(BoolVal(TRUE)))
      [] expr.name = "false" -> R(st, Ok(BoolVal(FALSE)))
      [] expr.name = "null" -> R(st, Ok(Null))
      [] OTHER ->
            LET g == get_var(st.heap, st.env, expr.name)
            IN  IF g.ok THEN R(st, Ok(g.val))
                ELSE R(st, Err("GetVarEnv", expr.name, expr.loc))

\* The match on (operand kind, operator), then `value.negate()`.  negate
\* works on the value in place and the value is then returned, so the
\* result is the negated value.
visit_unary_expr_negate(expr, r) ==
    IF ~r.res.ok THEN r
    ELSE IF r.res.val.kind \in {"Int", "Real"} /\ expr.operator = "!"
    THEN R(r.st, Err("BangOpOnNonBool", "", expr.loc))
    ELSE IF r.res.val.kind \in {"Bool", "Str", "Null"} /\ expr.operator = "-"
    THEN R(r.st, Err("NegateNonNumeric", "", expr.loc))
    ELSE LET n == negate(r.res.val, r.st.build)
             s == Log(r.st, Event("negate", expr.loc, r.st.act, r.res.val,
                                  expr.operator, 0, 0))
         IN  IF n.ok \/ IsPanic(n) THEN R(s, n)
             ELSE R(s, Err("Negation", n.msg, expr.loc))

visit_unary_expr(expr, st) == visit_unary_expr_negate(expr, expr_accept(expr.right, st))

\* visit_logical_expr requiring the right operand to be a Bool as well.
visit_logical_expr_kind_Strict(expr, r) ==
    IF ~r.res.ok THEN r
    ELSE IF r.res.val.kind # "Bool"
    THEN R(r.st, Err("NonBoolIfCond", "", expr.loc))
    ELSE r

visit_logical_expr_right_Strict(expr, l) ==
    IF ~l.res.ok THEN l
    ELSE IF l.res.val.kind # "Bool"
    THEN R(l.st, Err("NonBoolIfCond", "", expr.loc))
    ELSE IF expr.operator = "or" /\ l.res.val.v THEN R(l.st, Ok(l.res.val))
    ELSE IF expr.operator = "and" /\ ~l.res.val.v THEN R(l.st, Ok(l.res.val))
    ELSE visit_logical_expr_kind_Strict(expr, expr_accept(expr.right, l.st))

visit_logical_expr_Strict(expr, st) ==
    visit_logical_expr_right_Strict(expr, expr_accept(expr.left, st))

\* The short circuit on the left operand, else `expr.right.accept(self)`.
visit_logical_expr_right(expr, l) ==
    IF ~l.res.ok THEN l
    ELSE IF expr.operator = "or" /\ l.res.val.kind # "Bool"
    THEN R(l.st, Err("NonBoolIfCond", "", expr.loc))
    ELSE IF expr.operator = "or" /\ l.res.val.v THEN R(l.st, Ok(l.res.val))
    ELSE IF expr.operator = "and" /\ l.res.val.kind # "Bool"
    THEN R(l.st, Err("NonBoolIfCond", "", expr.loc))
    ELSE IF expr.operator = "and" /\ ~l.res.val.v THEN R(l.st, Ok(l.res.val))
    ELSE expr_accept(expr.right, l.st)

visit_logical_expr(expr, st) ==
    visit_logical_expr_right(expr, expr_accept(expr.left, st))

\* ------------------------------------------------------------------------
\* Callable (callable.rs, native_functions.rs)
\* ------------------------------------------------------------------------
\* Callable::arity: the parameter count of a user function; NativeClock
\* takes no argument.
arity(val) == IF val.kind = "Func" THEN Len(val.v.params) ELSE 0

IsCallable(val) == val.kind \in {"Func", "NativeFn"}

RECURSIVE BindParams(_, _, _, _)
BindParams(frame, params, args, i) ==
    IF i > Len(params) THEN frame
    ELSE BindParams([frame EXCEPT !.vars = (params[i] :> args[i]) @@ @],
                    params, args, i + 1)

\* The end of a call: a propagated Return becomes the call's value, no
\* return gives Null, any other error is handed on.  `caller` is the
\* activation that made the call, `a` the activation that ends.
call_return(f, caller, a, r) ==
    IF r.res.ok
    THEN R(Log([r.st EXCEPT !.act = caller], Event("exit", 0, a, Null, f.name, 0, 0)),
           Ok(Null))
    ELSE IF r.res.err = "Return"
    THEN R(Log([r.st EXCEPT !.act = caller],
               Event("exit", 0, a, r.res.val, f.name, 0, 0)),
           Ok(r.res.val))
    ELSE R([r.st EXCEPT !.act = caller], r.res)

\* UserFunction's Callable::call: a new frame whose parent is the captured
\* frame, the parameters bound positionally, the body run as a block under
\* it.
call(f, args, st) ==
    call_return(f, st.act, st.nact + 1,
        execute_block_stmt(f.body, BindParams(EnvNew(f.closure), f.params, args, 1),
            Log([st EXCEPT !.nact = st.nact + 1, !.act = st.nact + 1],
                Event("enter", 0, st.nact + 1, Null, f.name, Len(st.heap) + 1,
                      st.act))))

\* `args.push(a.accept(self)?)`
EvalArgs_next(exprs, i, args, r) ==
    IF ~r.res.ok THEN [st |-> r.st, res |-> r.res, args |-> args]
    ELSE EvalArgs(exprs, i + 1, r.st, Append(args, r.res.val))

\* `for a in &expr.args { args.push(a.accept(self)?) }`
EvalArgs(exprs, i, st, args) ==
    IF i > Len(exprs) THEN [st |-> st, res |-> Ok(Null), args |-> args]
    ELSE EvalArgs_next(exprs, i, args, expr_accept(exprs[i], st))

\* `f.call(self, args).map_err(|e| InterpErr::FnCall(..))`
visit_call_expr_result(expr, r) ==
    IF r.res.ok \/ IsPanic(r.res) THEN r
    ELSE R(r.st, Err("FnCall", r.res.err, expr.loc))

\* `if let RtValKind::FuncVal(f) = callee.value { .. } else { NonFnCall }`.
\* The "check" event records what the call site saw after evaluating callee
\* and arguments: the callee value, its arity, the argument count and the
\* branch taken.
visit_call_expr_check(expr, callee, e) ==
    IF ~e.res.ok THEN R(e.st, e.res)
    ELSE IF callee.kind = "Func" THEN
        IF arity(callee) # Len(e.args)
        THEN R(Log(e.st, Event("check", expr.loc, e.st.act, callee,
                               "WrongArgsNb", arity(callee), Len(e.args))),
               ErrWrongArgsNb(arity(callee), Len(e.args), expr.loc))
        ELSE visit_call_expr_result(expr,
                 call(callee.v, e.args,
                      Log(e.st, Event("check", expr.loc, e.st.act, callee, "call",
                                      arity(callee), Len(e.args)))))
    ELSE R(Log(e.st, Event("check", expr.loc, e.st.act, callee,
                           "NonFnCall", arity(callee), Len(e.args))),
           Err("NonFnCall", "", expr.loc))

\* `let mut args = vec![]; for a in &expr.args { .. }`
visit_call_expr_args(expr, c) ==
    IF ~c.res.ok THEN c
    ELSE visit_call_expr_check(expr, c.res.val, EvalArgs(expr.args, 1, c.st, <<>>))

visit_call_expr(expr, st) == visit_call_expr_args(expr, expr_accept(expr.callee, st))

\* Expr::accept: the dispatch on the expression's variant.
expr_accept(expr, st) ==
    LET s == Log(st, Event("expr", expr.loc, st.act, Null, expr.kind, 0, 0))
    IN  CASE expr.kind = "Binary" -> visit_binary_expr(expr, s)
          [] expr.kind = "Assign" -> visit_assign_expr(expr, s)
          [] expr.kind = "Grouping" -> visit_grouping_expr(expr, s)
          [] expr.kind = "IntLiteral" -> visit_int_literal_expr(expr, s)
          [] expr.kind = "RealLiteral" -> visit_real_literal_expr(expr, s)
          [] expr.kind = "StrLiteral" -> visit_str_literal_expr(expr, s)
          [] expr.kind = "Identifier" -> visit_identifier_expr(expr, s)
          [] expr.kind = "Unary" -> visit_unary_expr(expr, s)
          [] expr.kind = "Logical" -> visit_logical_expr(expr, s)
          [] expr.kind = "Call" -> visit_call_expr(expr, s)

\* ------------------------------------------------------------------------
\* Programs of the interpreter's own tests (mod tests), as the syntax trees
\* the front end hands over.
\* ------------------------------------------------------------------------
Id(loc, name) == IdentifierExpr(loc, name)

Num(loc, n) == IntLiteralExpr(loc, n)

\* var a = true|false ; var b = <n> ; <stmt> ; b
IfProgram(a, n, stmt) ==
    << VarDeclStmt(1, "a", Some(Id(2, a))),
       VarDeclStmt(3, "b", Some(Num(4, n))),
       stmt,
       ExprStmt(98, Id(99, "b")) >>

SetB(loc, n) == BlockStmt(loc, << ExprStmt(loc + 1, AssignExpr(loc + 2, "b", Num(loc + 3, n))) >>)

EmptyBlock(loc) == BlockStmt(loc, << >>)

\* tests::variable
ProgVariable1 ==
    << VarDeclStmt(1, "a", Some(UnaryExpr(2, "-", Num(3, 8)))),
       ExprStmt(4, Id(5, "a")) >>

ProgVariable2 ==
    << VarDeclStmt(1, "a", Some(UnaryExpr(2, "-", Num(3, 8)))),
       ExprStmt(4, AssignExpr(5, "a",
            BinaryExpr(6, Num(7, 4), "+", BinaryExpr(8, Id(9, "a"), "*", Num(10, 2))))),
       ExprStmt(11, Id(12, "a")) >>

ProgAssignUndeclared == << ExprStmt(1, AssignExpr(2, "a", Num(3, 5))) >>

ProgUninitialized ==
    << VarDeclStmt(1, "b", None),
       ExprStmt(2, BinaryExpr(3, Num(4, 3), "+", Id(5, "b"))) >>

\* tests::block
ProgBlock ==
    << VarDeclStmt(1, "a", Some(UnaryExpr(2, "-", Num(3, 8)))),
       BlockStmt(4,
         << VarDeclStmt(5, "b", Some(Num(6, 1))),
            ExprStmt(7, AssignExpr(8, "b", BinaryExpr(9, Id(10, "a"), "+", Num(11, 9)))),
            ExprStmt(12, AssignExpr(13, "a", Id(14, "b"))) >>),
       ExprStmt(15, Id(16, "a")) >>

\* tests::if_stmt
ProgIf1 == IfProgram("true", 0, IfStmt(10, Id(11, "a"), Some(SetB(20, 1)), Some(EmptyBlock(30))))

ProgIf2 == IfProgram("false", 0, IfStmt(10, Id(11, "a"), Some(SetB(20, 8)), Some(SetB(30, 1))))

ProgIf3 ==
    IfProgram("false", 42, IfStmt(10, Id(11, "a"), Some(EmptyBlock(20)), Some(EmptyBlock(30))))

ProgIfNonBool ==
    << VarDeclStmt(1, "a", Some(Num(2, 5))),
       IfStmt(10, Id(11, "a"), Some(EmptyBlock(20)), Some(EmptyBlock(30))) >>

\* tests::logical
ProgLogical1 ==
    IfProgram("true", 0,
        IfStmt(10, LogicalExpr(11, Id(12, "a"), "and",
                               BinaryExpr(13, Id(14, "b"), "==", Num(15, 0))),
               Some(SetB(20, 1)), None))

ProgLogical2 ==
    IfProgram("true", 0,
        IfStmt(10, LogicalExpr(11, Id(12, "a"), "and",
                               BinaryExpr(13, BinaryExpr(14, Num(15, 2), "+", Num(16, 2)),
                                          "==", Num(17, 5))),
               Some(EmptyBlock(20)), Some(SetB(30, 1))))

ProgLogical3 ==
    IfProgram("true", 0,
        IfStmt(10, LogicalExpr(11, Id(12, "a"), "or", Id(13, "false")),
               Some(SetB(20, 1)), None))

ProgLogical4 ==
    IfProgram("false", 0,
        IfStmt(10, LogicalExpr(11, Id(12, "a"), "or", Id(13, "false")),
               Some(EmptyBlock(20)), Some(SetB(30, 1))))

ProgLogical5 ==
    IfProgram("true", 42,
        IfStmt(10,
               LogicalExpr(11,
                   LogicalExpr(12, Id(13, "a"), "and",
                               BinaryExpr(14, Id(15, "b"), "==", Num(16, 41))),
                   "or",
                   LogicalExpr(17, BinaryExpr(18, Id(19, "b"), "==", Num(40, 42)), "and",
                               Id(41, "false"))),
               Some(EmptyBlock(20)), Some(SetB(30, 45))))

\* tests::while_stmt
ProgWhile ==
    << VarDeclStmt(1, "a", Some(Num(2, 0))),
       WhileStmt(3, BinaryExpr(4, Id(5, "a"), "<", Num(6, 5)),
          BlockStmt(7, << ExprStmt(8, AssignExpr(9, "a",
                              BinaryExpr(10, Id(11, "a"), "+", Num(12, 1)))) >>)),
       ExprStmt(13, Id(14, "a")) >>

\* tests::for_stmt: var a = 0 ; for i in <range> { a = a + i } ; a
ForSum(range) ==
    << VarDeclStmt(1, "a", Some(Num(2, 0))),
       ForStmt(3, VarDeclStmt(4, "i", None), range,
          BlockStmt(5, << ExprStmt(6, AssignExpr(7, "a",
                              BinaryExpr(8, Id(9, "a"), "+", Id(10, "i")))) >>)),
       ExprStmt(11, Id(12, "a")) >>

ProgFor1 == ForSum(ForRange(5, None))

ProgFor2 == ForSum(ForRange(5, Some(10)))

\* tests::functions
ProgFunctions ==
    << VarDeclStmt(1, "res", None),
       FnDeclStmt(2, "add", << "a", "b" >>,
          << ExprStmt(3, AssignExpr(4, "res", BinaryExpr(5, Id(6, "a"), "+", Id(7, "b")))) >>),
       ExprStmt(8, CallExpr(9, Id(10, "add"), << Num(11, 5), Num(12, 6) >>)),
       ExprStmt(13, Id(14, "res")) >>

\* tests::first_class_fn
ProgFirstClassFn ==
    << FnDeclStmt(1, "add", << "a", "b" >>,
          << ReturnStmt(2, Some(BinaryExpr(3, Id(4, "a"), "+", Id(5, "b")))) >>),
       VarDeclStmt(6, "c", Some(Id(7, "add"))),
       ExprStmt(8, CallExpr(9, Id(10, "c"), << Num(11, 1), Num(12, 2) >>)) >>

\* tests::recurs_and_break_fn, with the argument of the top-level call free
ProgFib(n) ==
    << FnDeclStmt(1, "fib", << "n" >>,
          << IfStmt(2, BinaryExpr(3, Id(4, "n"), "<=", Num(5, 1)),
                    Some(BlockStmt(6, << ReturnStmt(7, Some(Id(8, "n"))) >>)), None),
             ReturnStmt(9, Some(BinaryExpr(10,
                 CallExpr(11, Id(12, "fib"), << BinaryExpr(13, Id(14, "n"), "-", Num(15, 2)) >>),
                 "+",
                 CallExpr(16, Id(17, "fib"), << BinaryExpr(18, Id(19, "n"), "-", Num(20, 1)) >>)))) >>),
       ExprStmt(21, CallExpr(22, Id(23, "fib"), << Num(24, n) >>)) >>

\* tests::closure_env, with the counter called `calls` times
CounterCalls(calls) ==
    [k \in 1 .. calls |->
        ExprStmt(100 + 10 * k, AssignExpr(101 + 10 * k, "a",
                 CallExpr(102 + 10 * k, Id(103 + 10 * k, "counter"), << >>)))]

ProgClosureEnv(calls) ==
    << FnDeclStmt(1, "makeCounter", << >>,
          << VarDeclStmt(2, "i", Some(Num(3, 0))),
             FnDeclStmt(4, "count", << >>,
                << ExprStmt(5, AssignExpr(6, "i", BinaryExpr(7, Id(8, "i"), "+", Num(9, 1)))),
                   ReturnStmt(10, Some(Id(11, "i"))) >>),
             ReturnStmt(12, Some(Id(13, "count"))) >>),
       VarDeclStmt(14, "counter", Some(CallExpr(15, Id(16, "makeCounter"), << >>))),
       VarDeclStmt(17, "a", Some(Num(18, 0))) >>
    \o CounterCalls(calls)
    \o << ExprStmt(98, Id(99, "a")) >>

TestPrograms ==
    { ProgVariable1, ProgVariable2, ProgAssignUndeclared, ProgUninitialized, ProgBlock,
      ProgIf1, ProgIf2, ProgIf3, ProgIfNonBool,
      ProgLogical1, ProgLogical2, ProgLogical3, ProgLogical4, ProgLogical5,
      ProgWhile, ProgFor1, ProgFor2, ProgFunctions, ProgFirstClassFn }

\* How many times the returned counter of tests::closure_env is called, and
\* the largest argument of the top-level call of tests::recurs_and_break_fn.
MaxCalls == 3

MaxFib == 4

ClosurePrograms == { ProgClosureEnv(k) : k \in 0 .. MaxCalls }

FibPrograms == { ProgFib(n) : n \in 0 .. MaxFib }

\* ------------------------------------------------------------------------
\* for loops left on each exit path.  The loop `for i in 1 { <body> }` with
\* a body that completes, fails (an unresolved name) or returns, and a
\* placeholder declaration that may carry a failing initializer; at the top
\* level, inside a block, or as the body of a called function.
\* ------------------------------------------------------------------------
ExitBody(how) ==
    CASE how = "completes" -> PrintStmt(13, Id(14, "i"))
      [] how = "fails" -> ExprStmt(13, Id(14, "undefined"))
      [] how = "returns" -> ReturnStmt(13, Some(Id(14, "i")))

ExitLoop(init, how) ==
    ForStmt(10, VarDeclStmt(11, "i", init), ForRange(1, None),
            BlockStmt(12, << ExitBody(how) >>))

ForExit(where, init, how) ==
    CASE where = "top" ->
            << ExitLoop(init, how), PrintStmt(30, Num(31, 0)) >>
      [] where = "block" ->
            << BlockStmt(5, << ExitLoop(init, how) >>), PrintStmt(30, Num(31, 0)) >>
      [] where = "fn" ->
            << FnDeclStmt(1, "f", << >>, << ExitLoop(init, how) >>),
               ExprStmt(20, CallExpr(21, Id(22, "f"), << >>)),
               PrintStmt(30, Num(31, 0)) >>

ForExitPrograms ==
    { ForExit(where, init, how) :
        where \in {"top", "block", "fn"},
        init \in {None, Some(Id(15, "undefined"))},
        how \in {"completes", "fails", "returns"} }

\* ------------------------------------------------------------------------
\* return statements.  `return <value>` nested `depth` constructs deep, each
\* construct followed by a print that must not run; inside a function `f`
\* whose result the top level prints, or at the top level itself.
\*   Wrap(k, s): the statement s inside a block (k = 1), the then-branch of
\*   an if (k = 2), the body of a while (k = 3), the body of a for (k = 4),
\*   together with the statement that follows it.
\* ------------------------------------------------------------------------
Wrap(k, loc, s) ==
    CASE k = 1 -> BlockStmt(loc, << s, PrintStmt(loc + 1, Num(loc + 2, 1)) >>)
      [] k = 2 -> BlockStmt(loc,
                    << IfStmt(loc + 1, Id(loc + 2, "true"), Some(s), None),
                       PrintStmt(loc + 3, Num(loc + 4, 2)) >>)
      [] k = 3 -> BlockStmt(loc,
                    << WhileStmt(loc + 1, Id(loc + 2, "true"), s),
                       PrintStmt(loc + 3, Num(loc + 4, 3)) >>)
      [] k = 4 -> BlockStmt(loc,
                    << ForStmt(loc + 1, VarDeclStmt(loc + 2, "i", None), ForRange(2, None), s),
                       PrintStmt(loc + 3, Num(loc + 4, 4)) >>)

\* The value of a return statement and the value it evaluates to.
ReturnCases ==
    { [value |-> None, result |-> Null],
      [value |-> Some(Num(91, 7)), result |-> IntVal(7)],
      [value |-> Some(Id(91, "null")), result |-> Null],
      [value |-> Some(BinaryExpr(91, Num(92, 3), "+", Num(93, 4))), result |-> IntVal(7)] }

Constructs == 1 .. 4

\* return inside construct `inner` inside construct `outer`.
Nested(outer, inner, value) ==
    Wrap(outer, 40, Wrap(inner, 50, ReturnStmt(90, value)))

ReturnInFn(outer, inner, value) ==
    << FnDeclStmt(1, "f", << >>, << Nested(outer, inner, value), PrintStmt(70, Num(71, 5)) >>),
       PrintStmt(20, CallExpr(21, Id(22, "f"), << >>)),
       PrintStmt(30, Num(31, 6)) >>

ReturnAtTop(outer, inner, value) ==
    << Nested(outer, inner, value), PrintStmt(30, Num(31, 6)) >>

\* A call that returns, then a return of the call's value at the top level.
ReturnBoth(outer, inner, value) ==
    << FnDeclStmt(1, "f", << >>, << Nested(outer, inner, value), PrintStmt(70, Num(71, 5)) >>),
       VarDeclStmt(20, "x", Some(CallExpr(21, Id(22, "f"), << >>))),
       IfStmt(23, Id(24, "true"), Some(ReturnStmt(25, Some(Id(26, "x")))), None),
       PrintStmt(30, Num(31, 6)) >>

ReturnBare(value) == << ReturnStmt(90, value), PrintStmt(30, Num(31, 6)) >>

ReturnPrograms ==
    UNION { { ReturnInFn(o, i, c.value), ReturnAtTop(o, i, c.value), ReturnBoth(o, i, c.value) } :
            o \in Constructs, i \in Constructs, c \in ReturnCases }
    \cup { ReturnBare(c.value) : c \in ReturnCases }

\* ------------------------------------------------------------------------
\* Calls.  After a prelude that binds one name to a value of every kind, the
\* statement `<callee>(1, .., m)`; the arguments are literals at locations
\* 61, 62, ...
\* ------------------------------------------------------------------------
MaxArgs == 2

ParamNames == << "p", "q", "r", "s" >>

\* fn f<k>(p, ..) { print 100 ; return 9 }
UserFn(loc, name, k) ==
    FnDeclStmt(loc, name, SubSeq(ParamNames, 1, k),
               << PrintStmt(loc + 1, Num(loc + 2, 100)),
                  ReturnStmt(loc + 3, Some(Num(loc + 4, 9))) >>)

FnNames == << "f0", "f1", "f2", "f3" >>

Prelude ==
    << VarDeclStmt(1, "n", Some(Num(2, 3))),
       VarDeclStmt(3, "s", Some(StrLiteralExpr(4, "foo"))),
       VarDeclStmt(5, "b", Some(Id(6, "true"))),
       VarDeclStmt(7, "x", Some(RealLiteralExpr(8, 2))),
       VarDeclStmt(9, "u", None) >>
    \o [k \in 1 .. MaxArgs + 1 |-> UserFn(10 * k, FnNames[k], k - 1)]

\* The names the prelude binds and `clock`, with the kind of the value, and
\* for the callable ones the arity.
Callees ==
    { [name |-> FnNames[k], kind |-> "Func", arity |-> k - 1] : k \in 1 .. MaxArgs + 1 }
    \cup { [name |-> "clock", kind |-> "NativeFn", arity |-> 0],
           [name |-> "n", kind |-> "Int", arity |-> 0],
           [name |-> "s", kind |-> "Str", arity |-> 0],
           [name |-> "b", kind |-> "Bool", arity |-> 0],
           [name |-> "x", kind |-> "Real", arity |-> 0],
           [name |-> "u", kind |-> "Null", arity |-> 0] }

CallStmt(name, m) ==
    ExprStmt(50, CallExpr(51, Id(52, name), [j \in 1 .. m |-> Num(60 + j, j)]))

CallProgram(name, m) == Prelude \o << CallStmt(name, m), PrintStmt(98, Num(99, 0)) >>

CallPrograms == { CallProgram(c.name, m) : c \in Callees, m \in 0 .. MaxArgs }

\* ------------------------------------------------------------------------
\* for loops over a range: `for i in <range> { print i }`.  The endpoints
\* are taken next to both ends of the integer range and around zero; a loop
\* runs at most MaxSpan + 1 times.
\* ------------------------------------------------------------------------
MaxSpan == 12

ForEnds == { IntMin, IntMin + 1, -1, 0, 1, 5, 10, IntMax - 1, IntMax }

ForRanges ==
    { ForRange(n, None) : n \in { e \in ForEnds : e <= MaxSpan \/ e = IntMax } }
    \cup { ForRange(ab[1], Some(ab[2])) :
             ab \in { p \in ForEnds \X ForEnds : p[2] - p[1] <= MaxSpan \/ p[2] = IntMax } }

ForPrint(range) ==
    << ForStmt(1, VarDeclStmt(2, "i", None), range,
               BlockStmt(3, << PrintStmt(4, Id(5, "i")) >>)) >>

ForPrograms == { ForPrint(rg) : rg \in ForRanges }

\* ------------------------------------------------------------------------
\* The last statement of a program.  After `var a = 7` and
\* `fn f() { return 9 }`, one statement of each kind, with the value
\* interpret returns when that statement is the last one.
\* ------------------------------------------------------------------------
LastPrelude ==
    << VarDeclStmt(1, "a", Some(Num(2, 7))),
       FnDeclStmt(3, "f", << >>, << ReturnStmt(4, Some(Num(5, 9))) >>) >>

LastCases ==
    { [stmt |-> ExprStmt(50, Num(51, 3)), result |-> IntVal(3)],
      [stmt |-> ExprStmt(50, Id(51, "a")), result |-> IntVal(7)],
      [stmt |-> ExprStmt(50, Id(51, "true")), result |-> BoolVal(TRUE)],
      [stmt |-> ExprStmt(50, StrLiteralExpr(51, "s")), result |-> StrVal("s")],
      [stmt |-> ExprStmt(50, RealLiteralExpr(51, 2)), result |-> RealVal(2)],
      [stmt |-> ExprStmt(50, BinaryExpr(51, Id(52, "a"), "+", Num(53, 1))),
       result |-> IntVal(8)],
      [stmt |-> ExprStmt(50, UnaryExpr(51, "-", Id(52, "a"))), result |-> IntVal(-7)],
      [stmt |-> ExprStmt(50, GroupingExpr(51, Id(52, "a"))), result |-> IntVal(7)],
      [stmt |-> ExprStmt(50, CallExpr(51, Id(52, "f"), << >>)), result |-> IntVal(9)],
      [stmt |-> ExprStmt(50, AssignExpr(51, "a", Num(52, 9))), result |-> Null],
      [stmt |-> PrintStmt(50, Id(51, "a")), result |-> Null],
      [stmt |-> VarDeclStmt(50, "b", Some(Num(51, 5))), result |-> Null],
      [stmt |-> FnDeclStmt(50, "g", << >>, << ExprStmt(51, Num(52, 5)) >>),
       result |-> Null],
      [stmt |-> BlockStmt(50, << ExprStmt(51, Id(52, "a")), ExprStmt(53, Num(54, 5)) >>),
       result |-> Null],
      [stmt |-> WhileStmt(50, BinaryExpr(51, Id(52, "a"), "<", Num(53, 8)),
                          ExprStmt(54, AssignExpr(55, "a",
                                       BinaryExpr(56, Id(57, "a"), "+", Num(58, 1))))),
       result |-> Null],
      [stmt |-> ForStmt(50, VarDeclStmt(51, "i", None), ForRange(1, None),
                        ExprStmt(52, Id(53, "i"))),
       result |-> Null] }

LastProgram(c) == LastPrelude \o << c.stmt >>

\* The statement after a statement that has a value.
LastAfterValue(c) == << ExprStmt(40, Num(41, 4)), c.stmt >>

LastPrograms ==
    { << >> }
    \cup { LastProgram(c) : c \in LastCases }
    \cup { LastAfterValue(c) : c \in { d \in LastCases : d.result = Null } }

\* ------------------------------------------------------------------------
\* Conditions.  The names bound by Prelude (and the reserved names), as the
\* condition of an if or of a while.
\* ------------------------------------------------------------------------
CondCases ==
    { [name |-> "b", kind |-> "Bool", v |-> TRUE],
      [name |-> "true", kind |-> "Bool", v |-> TRUE],
      [name |-> "false", kind |-> "Bool", v |-> FALSE],
      [name |-> "n", kind |-> "Int", v |-> FALSE],
      [name |-> "x", kind |-> "Real", v |-> FALSE],
      [name |-> "s", kind |-> "Str", v |-> FALSE],
      [name |-> "u", kind |-> "Null", v |-> FALSE],
      [name |-> "null", kind |-> "Null", v |-> FALSE],
      [name |-> "f0", kind |-> "Func", v |-> FALSE],
      [name |-> "clock", kind |-> "NativeFn", v |-> FALSE] }

Branches(n) == { None, Some(PrintStmt(60 + 10 * n, Num(61 + 10 * n, n))) }

\* if <cond> <then: print 1> else <else: print 2> ; print 0
IfCond(c, then_branch, else_branch) ==
    Prelude \o << IfStmt(50, Id(51, c.name), then_branch, else_branch),
                  PrintStmt(98, Num(99, 0)) >>

IfPrograms ==
    { IfCond(c, t, e) : c \in CondCases, t \in Branches(1), e \in Branches(2) }

MaxIter == 3

\* var c = true ; var k = 0
\* while c { print k ; k = k + 1 ; if k >= turns { c = <last> } }
\* print 0
\* The condition is true `turns` times and then evaluates to `last`; with
\* turns = 0 it is `last` from the start.
WhileCond(turns, last) ==
    Prelude \o
    << VarDeclStmt(50, "c", Some(Id(51, IF turns = 0 THEN last.name ELSE "true"))),
       VarDeclStmt(52, "k", Some(Num(53, 0))),
       WhileStmt(54, Id(55, "c"),
          BlockStmt(56,
             << PrintStmt(57, Id(58, "k")),
                ExprStmt(59, AssignExpr(60, "k", BinaryExpr(61, Id(62, "k"), "+", Num(63, 1)))),
                IfStmt(64, BinaryExpr(65, Id(66, "k"), ">=", Num(67, turns)),
                       Some(ExprStmt(68, AssignExpr(69, "c", Id(70, last.name)))), None) >>)),
       PrintStmt(98, Num(99, 0)) >>

LastConds == { c \in CondCases : ~c.v }

WhilePrograms == { WhileCond(t, c) : t \in 0 .. MaxIter, c \in LastConds }

\* ------------------------------------------------------------------------
\* Unary expressions: `<op> <operand>` for both operators and an operand of
\* every kind.
\* ------------------------------------------------------------------------
UnaryOps == { "-", "!" }

UnaryProgram(op, c) == Prelude \o << ExprStmt(50, UnaryExpr(51, op, Id(52, c.name))) >>

UnaryPrograms == { UnaryProgram(op, c) : op \in UnaryOps, c \in CondCases }

\* ------------------------------------------------------------------------
\* Binary expressions: `<left> <op> <right> ; print 0`.  An operand is a
\* name or a call; `prints` is what evaluating it prints.
\*   f0()      prints 100 and returns 9
\*   nothing() prints 200 and returns nothing (Null)
\* ------------------------------------------------------------------------
Operands ==
    { [form |-> "name", name |-> "u", val |-> Null, prints |-> << >>],
      [form |-> "name", name |-> "null", val |-> Null, prints |-> << >>],
      [form |-> "name", name |-> "n", val |-> IntVal(3), prints |-> << >>],
      [form |-> "name", name |-> "s", val |-> StrVal("foo"), prints |-> << >>],
      [form |-> "call", name |-> "f0", val |-> IntVal(9), prints |-> << IntVal(100) >>],
      [form |-> "call", name |-> "nothing", val |-> Null, prints |-> << IntVal(200) >>] }

OperandExpr(o, loc) ==
    IF o.form = "call" THEN CallExpr(loc, Id(loc + 1, o.name), << >>)
    ELSE Id(loc, o.name)

BinaryOps == { "+", "<" }

BinaryProgram(l, op, r) ==
    Prelude \o
    << FnDeclStmt(45, "nothing", << >>, << PrintStmt(46, Num(47, 200)) >>),
       ExprStmt(50, BinaryExpr(51, OperandExpr(l, 60), op, OperandExpr(r, 70))),
       PrintStmt(98, Num(99, 0)) >>

BinaryPrograms == { BinaryProgram(l, op, r) : l \in Operands, op \in BinaryOps, r \in Operands }

\* ------------------------------------------------------------------------
\* Logical expressions: `<left> and|or <right>` as the last statement.  An
\* operand is a name or a call; `val` is its value and `prints` what
\* evaluating it prints.
\*   yes()     prints 300 and returns true
\*   no()      prints 400 and returns false
\*   f0()      prints 100 and returns 9
\*   nothing() prints 200 and returns nothing (Null)
\* ------------------------------------------------------------------------
LogicalOperands ==
    { [form |-> "name", name |-> "true", val |-> BoolVal(TRUE), prints |-> << >>],
      [form |-> "name", name |-> "false", val |-> BoolVal(FALSE), prints |-> << >>],
      [form |-> "name", name |-> "n", val |-> IntVal(3), prints |-> << >>],
      [form |-> "name", name |-> "x", val |-> RealVal(2), prints |-> << >>],
      [form |-> "name", name |-> "s", val |-> StrVal("foo"), prints |-> << >>],
      [form |-> "name", name |-> "u", val |-> Null, prints |-> << >>],
      [form |-> "name", name |-> "f0", val |-> FuncVal(UserFn(10, "f0", 0), 1),
       prints |-> << >>],
      [form |-> "name", name |-> "clock", val |-> NativeFnVal("clock"), prints |-> << >>],
      [form |-> "call", name |-> "yes", val |-> BoolVal(TRUE), prints |-> << IntVal(300) >>],
      [form |-> "call", name |-> "no", val |-> BoolVal(FALSE), prints |-> << IntVal(400) >>],
      [form |-> "call", name |-> "f0", val |-> IntVal(9), prints |-> << IntVal(100) >>],
      [form |-> "call", name |-> "nothing", val |-> Null, prints |-> << IntVal(200) >>] }

LogicalProgram(l, op, r) ==
    Prelude \o
    << FnDeclStmt(45, "nothing", << >>, << PrintStmt(46, Num(47, 200)) >>),
       FnDeclStmt(80, "yes", << >>,
                  << PrintStmt(81, Num(82, 300)), ReturnStmt(83, Some(Id(84, "true"))) >>),
       FnDeclStmt(90, "no", << >>,
                  << PrintStmt(91, Num(92, 400)), ReturnStmt(93, Some(Id(94, "false"))) >>),
       ExprStmt(50, LogicalExpr(51, OperandExpr(l, 60), op, OperandExpr(r, 70))) >>

LogicalPrograms ==
    { LogicalProgram(l, op, r) : l \in LogicalOperands, op \in {"and", "or"},
                                 r \in LogicalOperands }

\* ------------------------------------------------------------------------
\* Closures declared in a loop body and called after the loop:
\*   var g0 = 0 ; var g1 = 0
\*   for i in <range> { fn f() { return i } ; print f() ; g0 = g1 ; g1 = f }
\*   print g0() ; print g1()
\* After the loop g1 is the f of the last iteration and g0 the f of the one
\* before.  The whole is either at the top level or inside a block.
\* ------------------------------------------------------------------------
LoopRanges ==
    { ForRange(n, None) : n \in 1 .. MaxIter }
    \cup { ForRange(1, Some(n)) : n \in 2 .. MaxIter }

LoopStatements(range) ==
    << VarDeclStmt(1, "g0", Some(Num(2, 0))),
       VarDeclStmt(3, "g1", Some(Num(4, 0))),
       ForStmt(5, VarDeclStmt(6, "i", None), range,
          BlockStmt(7,
             << FnDeclStmt(8, "f", << >>, << ReturnStmt(9, Some(Id(10, "i"))) >>),
                PrintStmt(11, CallExpr(12, Id(13, "f"), << >>)),
                ExprStmt(14, AssignExpr(15, "g0", Id(16, "g1"))),
                ExprStmt(17, AssignExpr(18, "g1", Id(19, "f"))) >>)),
       PrintStmt(20, CallExpr(21, Id(22, "g0"), << >>)),
       PrintStmt(23, CallExpr(24, Id(25, "g1"), << >>)) >>

LoopClosures(where, range) ==
    IF where = "block" THEN << BlockStmt(100, LoopStatements(range)) >>
    ELSE LoopStatements(range)

LoopPrograms == { LoopClosures(w, rg) : w \in {"top", "block"}, rg \in LoopRanges }

Programs ==
    TestPrograms \cup ClosurePrograms \cup FibPrograms \cup ForExitPrograms
    \cup ReturnPrograms \cup CallPrograms \cup ForPrograms \cup LastPrograms
    \cup IfPrograms \cup WhilePrograms \cup UnaryPrograms \cup BinaryPrograms
    \cup LogicalPrograms \cup LoopPrograms

\* ------------------------------------------------------------------------
\* The state machine: Interpreter::new, then interpret(nodes).
\*   heap, globals, env : the Interpreter and the frames it refers to
\*   build              : the build profile of the crate
\*   pc                 : "new" after construction, "running" inside
\*                        interpret, "done" when it has returned, "panicked"
\*                        when the thread panicked
\*   nodes, idx, res    : interpret's argument, the position of its loop
\*                        over the nodes and its local `res`
\*   result             : what interpret returned
\*   trace, nact        : the history of the run
\* ------------------------------------------------------------------------
VARIABLES heap, globals, env, build, pc, nodes, idx, res, result, trace, nact

vars == << heap, globals, env, build, pc, nodes, idx, res, result, trace, nact >>

\* Interpreter::new: the globals frame holds the native `clock`; the active
\* frame is the globals frame.
Init ==
    /\ heap = << [vars |-> ("clock" :> NativeFnVal("clock")), parent |-> 0] >>
    /\ globals = 1
    /\ env = 1
    /\ build \in Builds
    /\ pc = "new"
    /\ nodes = << >>
    /\ idx = 0
    /\ res = Null
    /\ result = Ok(Null)
    /\ trace = << >>
    /\ nact = 0

\* interpret(&self, nodes) is called: `let mut res = RtVal::new_null()`.
Interpret ==
    /\ pc = "new"
    /\ \E p \in Programs : nodes' = p
    /\ pc' = "running"
    /\ idx' = 1
    /\ res' = Null
    /\ UNCHANGED << heap, globals, env, build, result, trace, nact >>

\* `match node.accept(self) { Ok(r) => res = r, Err(e) => return Err(e) }`
Accepted(r) ==
    /\ heap' = r.st.heap
    /\ env' = r.st.env
    /\ trace' = r.st.trace
    /\ nact' = r.st.nact
    /\ IF r.res.ok
       THEN /\ res' = r.res.val
            /\ idx' = idx + 1
            /\ UNCHANGED << pc, result >>
       ELSE /\ result' = r.res
            /\ pc' = IF IsPanic(r.res) THEN "panicked" ELSE "done"
            /\ UNCHANGED << res, idx >>

\* One turn of `for node in nodes`: node.accept(self), then Ok(r) => res = r
\* or Err(e) => return Err(e).
AcceptNode ==
    /\ pc = "running"
    /\ idx <= Len(nodes)
    /\ Accepted(stmt_accept(nodes[idx],
                            [heap |-> heap, env |-> env, build |-> build,
                             trace |-> trace, act |-> 0, nact |-> nact]))
    /\ UNCHANGED << globals, build, nodes >>

\* The loop is over: Ok(res).
ReturnRes ==
    /\ pc = "running"
    /\ idx > Len(nodes)
    /\ result' = Ok(res)
    /\ pc' = "done"
    /\ UNCHANGED << heap, globals, env, build, nodes, idx, res, trace, nact >>

Next == Interpret \/ AcceptNode \/ ReturnRes

Spec == Init /\ [][Next]_vars

\* ------------------------------------------------------------------------
\* Properties
\* ------------------------------------------------------------------------
Finished == pc = "done"

Events == 1 .. Len(trace)

\* C1: every scope-introducing construct, and so every execution of
\* interpret, successful or failed, ends with the active frame it started
\* with (the globals frame installed by Interpreter::new).
C1_FrameRestored == Finished => env = globals

\* The values printed so far, in order.
IsPrint(e) == e.ev = "print"

Prints == SelectSeq(trace, IsPrint)

Printed == [k \in 1 .. Len(Prints) |-> Prints[k].val]

\* C2: once a return statement has raised Return(value), value being the
\* statement's value or Null for a bare `return`, nothing more runs in that
\* activation: no later statement, expression or print belongs to it.
\* Inside a call the signal reaches the call boundary through every block,
\* if, while and for with the same value, which becomes the call's result;
\* at the top level interpret returns Err(Return(value)) with no location
\* and no further top-level statement is executed.
C2_ReturnUnwinds ==
    /\ \A i \in Events :
        trace[i].ev = "return" =>
            /\ \A j \in Events :
                  (j > i /\ trace[j].act = trace[i].act) => trace[j].ev = "exit"
            /\ trace[i].act > 0 =>
                  \E j \in Events :
                      /\ j > i
                      /\ trace[j].ev = "exit"
                      /\ trace[j].act = trace[i].act
                      /\ trace[j].val = trace[i].val
            /\ trace[i].act = 0 => (Finished /\ result = ErrReturn(trace[i].val))
    /\ Finished =>
        \A o \in Constructs, i \in Constructs, c \in ReturnCases :
            /\ nodes = ReturnInFn(o, i, c.value) =>
                  (result = Ok(Null) /\ Printed = << c.result, IntVal(6) >>)
            /\ nodes \in { ReturnAtTop(o, i, c.value), ReturnBoth(o, i, c.value),
                           ReturnBare(c.value) } =>
                  (result = ErrReturn(c.result) /\ Printed = << >> /\ result.loc = 0)

\* A run in which a call has consumed a return raised inside nested
\* constructs and the top level has then returned the same value.
C2_Witness ==
    /\ Finished
    /\ result.err = "Return"
    /\ result.val = IntVal(7)
    /\ \E i \in Events : trace[i].ev = "return" /\ trace[i].act > 0
    /\ \E i \in Events : trace[i].ev = "exit" /\ trace[i].val = IntVal(7)

\* The position in the trace of the first event `ev` at location loc (0 if
\* there is none).
At(ev, loc) == { i \in Events : trace[i].ev = ev /\ trace[i].loc = loc }

First(ev, loc) ==
    IF At(ev, loc) = {} THEN 0
    ELSE CHOOSE i \in At(ev, loc) : \A j \in At(ev, loc) : i <= j

Happened(ev) == \E i \in Events : trace[i].ev = ev

\* C3: a call whose callee is the native `clock` is treated like a call of
\* a user function: with as many arguments as its arity (none) it is
\* invoked and does not fail with NonFnCall; with another number of
\* arguments it fails with WrongArgsNb(0, m).
C3_NativeCallable ==
    Finished =>
        \A m \in 0 .. MaxArgs :
            nodes = CallProgram("clock", m) =>
                IF m = 0 THEN result.ok
                ELSE result = ErrWrongArgsNb(0, m, 51)

\* C4: a call evaluates the callee, then the arguments from left to right,
\* and only then checks the callee: a callee that is not callable fails with
\* NonFnCall, a callable of arity n given m # n arguments fails with
\* WrongArgsNb(n, m); in both cases no body runs and no frame is created.
\* The body runs only when the callee is callable and m = n.
C4_CallChecks ==
    Finished =>
        \A c \in Callees, m \in 0 .. MaxArgs :
            nodes = CallProgram(c.name, m) =>
                /\ 0 < First("expr", 52)
                /\ \A j \in 1 .. m :
                      /\ First("expr", 52) < First("expr", 60 + j)
                      /\ j > 1 => First("expr", 60 + j - 1) < First("expr", 60 + j)
                      /\ First("expr", 60 + j) < First("check", 51)
                /\ c.kind \notin {"Func", "NativeFn"} =>
                      /\ result = Err("NonFnCall", "", 51)
                      /\ ~Happened("enter") /\ Len(heap) = 1
                /\ (c.kind \in {"Func", "NativeFn"} /\ c.arity # m) =>
                      /\ result = ErrWrongArgsNb(c.arity, m, 51)
                      /\ ~Happened("enter") /\ Len(heap) = 1
                /\ Happened("enter") => (c.kind \in {"Func", "NativeFn"} /\ c.arity = m)

\* The values `for i in <range>` must bind, in order: 0..=N for `N`,
\* A..=B for `A..B`, none when the range is empty.
Iterations(range) ==
    LET lo == IF Len(range.end) > 0 THEN range.start ELSE 0
        hi == IF Len(range.end) > 0 THEN range.end[1] ELSE range.start
    IN  IF hi < lo THEN << >> ELSE [k \in 1 .. (hi - lo + 1) |-> IntVal(lo + k - 1)]

\* C5: for every N, A, B of the integer type, `for i in N` runs the body
\* once for each i = 0..N in ascending order and `for i in A..B` once for
\* each i = A..B, the placeholder bound to i, both endpoints included, and
\* not at all when the range is empty; the sums over `for i in 5` and
\* `for i in 5..10` are 15 and 45.
C5_InclusiveRange ==
    (pc \in {"done", "panicked"}) =>
        /\ \A rg \in ForRanges :
              nodes = ForPrint(rg) => (result = Ok(Null) /\ Printed = Iterations(rg))
        /\ nodes = ProgFor1 => result = Ok(IntVal(15))
        /\ nodes = ProgFor2 => result = Ok(IntVal(45))

RECURSIVE Fib(_)
Fib(n) == IF n <= 1 THEN n ELSE Fib(n - 2) + Fib(n - 1)

Min(x, y) == IF x < y THEN x ELSE y

\* C6: a function declaration captures the active frame itself, not a copy,
\* and declares the function under its name in that frame.  So the
\* function's name resolves inside its body and recursion works (fib(n) is
\* the n-th Fibonacci number), and an assignment made through a closure to a
\* variable of the captured frame is seen by every later call after the
\* declaring function has returned: the j-th call of the counter returned
\* by makeCounter yields j.
C6_SharedClosure ==
    /\ \A n \in 0 .. MaxFib :
          nodes = ProgFib(n) =>
              /\ (pc = "running" /\ idx >= 2) =>
                    /\ heap[globals].vars["fib"].kind = "Func"
                    /\ heap[globals].vars["fib"].v.closure = globals
              /\ Finished => result = Ok(IntVal(Fib(n)))
    /\ \A k \in 0 .. MaxCalls :
          (nodes = ProgClosureEnv(k) /\ idx >= 4) =>
              LET made == Min(idx - 4, k)
                  counter == heap[globals].vars["counter"]
              IN  /\ heap[globals].vars["a"] = IntVal(made)
                  /\ counter.kind = "Func"
                  /\ counter.v.closure # globals
                  /\ heap[counter.v.closure].vars["count"] = counter
                  /\ heap[counter.v.closure].vars["i"] = IntVal(made)
                  /\ Finished => result = Ok(IntVal(k))

\* The counter has been called twice and the second call yielded 2.
C6_Witness ==
    /\ Finished
    /\ nodes = ProgClosureEnv(2)
    /\ result = Ok(IntVal(2))

\* The top-level statements visited so far, in the order of the visits.
IsTopLevel(e) ==
    /\ e.ev = "stmt"
    /\ e.act = 0
    /\ \E k \in 1 .. Len(nodes) : nodes[k].loc = e.loc

TopLevel == SelectSeq(trace, IsTopLevel)

Visited == [k \in 1 .. Len(TopLevel) |-> TopLevel[k].loc]

\* C7: interpret executes the top-level statements in order and, when none
\* fails, returns the result of the last one: the expression's value for an
\* expression statement; Null for a print, variable declaration, function
\* declaration, block, while or for statement and for an assignment
\* expression statement; Null for the empty sequence.
C7_LastResult ==
    /\ Visited = [k \in 1 .. Len(Visited) |-> nodes[k].loc]
    /\ (Finished /\ result.ok) =>
        /\ Len(Visited) = Len(nodes)
        /\ nodes = << >> => result.val = Null
        /\ Len(nodes) > 0 =>
              LET last == nodes[Len(nodes)]
              IN  /\ last.kind \in {"Print", "VarDecl", "FnDecl", "Block", "While", "For"}
                        => result.val = Null
                  /\ (last.kind = "Expr" /\ last.expr.kind = "Assign") => result.val = Null
        /\ \A c \in LastCases :
              /\ nodes = LastProgram(c) => result.val = c.result
              /\ (c.result = Null /\ nodes = LastAfterValue(c)) => result.val = Null

\* A run has ended with a block whose last statement has a value.
C7_Witness ==
    /\ Finished
    /\ result = Ok(Null)
    /\ Len(nodes) = 3
    /\ nodes[3].kind = "Block"
    /\ First("expr", 54) > 0

Count(ev, loc) == Cardinality(At(ev, loc))

Upto(n) == [k \in 1 .. n |-> IntVal(k - 1)]

\* C8: the condition of an if and of a while must be a Bool each time it is
\* evaluated.  if evaluates it once and executes the branch matching it, or
\* nothing when that branch is absent; while evaluates it before every
\* iteration and runs the body once each time it is true, until it is
\* false.  A condition of any other kind fails with NonBoolIfCond /
\* NonBoolWhileCond where it is observed; nothing more is executed.
C8_BoolConditions ==
    Finished =>
        /\ \A c \in CondCases, t \in Branches(1), e \in Branches(2) :
              nodes = IfCond(c, t, e) =>
                  /\ Count("expr", 51) = 1
                  /\ c.kind = "Bool" =>
                        /\ result = Ok(Null)
                        /\ Printed =
                              (IF c.v THEN (IF Len(t) > 0 THEN << IntVal(1) >> ELSE << >>)
                               ELSE (IF Len(e) > 0 THEN << IntVal(2) >> ELSE << >>))
                              \o << IntVal(0) >>
                  /\ c.kind # "Bool" =>
                        /\ result = Err("NonBoolIfCond", "", 50)
                        /\ Printed = << >>
        /\ \A turns \in 0 .. MaxIter, c \in LastConds :
              nodes = WhileCond(turns, c) =>
                  /\ Count("expr", 55) = turns + 1
                  /\ c.kind = "Bool" =>
                        /\ result = Ok(Null)
                        /\ Printed = Upto(turns) \o << IntVal(0) >>
                  /\ c.kind # "Bool" =>
                        /\ result = Err("NonBoolWhileCond", "", 54)
                        /\ Printed = Upto(turns)

\* A while loop has run its body and then failed on a condition that was
\* no longer a Bool.
C8_Witness ==
    /\ Finished
    /\ result.err = "NonBoolWhileCond"
    /\ Len(Printed) = 2

ValidUnary(op, kind) ==
    \/ op = "-" /\ kind \in {"Int", "Real"}
    \/ op = "!" /\ kind = "Bool"

\* C9: unary minus is accepted on Int and Real only and logical not on Bool
\* only; every other combination of operator and operand kind is rejected
\* by the check in visit_unary_expr, with NegateNonNumeric for `-` and
\* BangOpOnNonBool for `!`, before negate is invoked: negate only sees valid
\* combinations and the Negation error is never produced.
C9_PrecheckComplete ==
    /\ \A i \in Events :
          trace[i].ev = "negate" => ValidUnary(trace[i].info, trace[i].val.kind)
    /\ Finished =>
          /\ result.err # "Negation"
          /\ \A op \in UnaryOps, c \in CondCases :
                nodes = UnaryProgram(op, c) =>
                    IF ValidUnary(op, c.kind) THEN result.ok
                    ELSE result = Err(IF op = "-" THEN "NegateNonNumeric"
                                      ELSE "BangOpOnNonBool", "", 51)

\* C10: a binary expression evaluates its left operand first; if that is
\* Null it fails with UninitializedValue at the left operand and the right
\* operand is not evaluated.  Otherwise it evaluates the right operand and
\* fails with UninitializedValue at the right operand if that is Null;
\* operate is invoked only when both operands are not Null.  `var b` then
\* `3 + b` fails with UninitializedValue.
C10_BinaryNullChecks ==
    /\ Finished =>
        /\ nodes = ProgUninitialized => result = Err("UninitializedValue", "", 5)
        /\ \A l \in Operands, op \in BinaryOps, r \in Operands :
              nodes = BinaryProgram(l, op, r) =>
                  /\ First("expr", 60) > 0
                  /\ l.val = Null =>
                        /\ result = Err("UninitializedValue", "", 60)
                        /\ First("expr", 70) = 0
                        /\ Printed = l.prints
                        /\ ~Happened("operate")
                  /\ (l.val # Null /\ r.val = Null) =>
                        /\ result = Err("UninitializedValue", "", 70)
                        /\ First("expr", 60) < First("expr", 70)
                        /\ Printed = l.prints \o r.prints
                        /\ ~Happened("operate")
                  /\ (l.val # Null /\ r.val # Null) =>
                        /\ First("expr", 60) < First("expr", 70)
                        /\ First("expr", 70) < First("operate", 51)
                        /\ LET o == operate(l.val, r.val, op, build)
                           IN  IF o.ok
                               THEN /\ result = Ok(Null)
                                    /\ Printed = l.prints \o r.prints \o << IntVal(0) >>
                               ELSE /\ result = Err("OperationEvaluation", o.msg, 51)
                                    /\ Printed = l.prints \o r.prints

\* A run has failed on a Null left operand whose right operand is a call.
C10_Witness ==
    /\ Finished
    /\ result = Err("UninitializedValue", "", 60)
    /\ \E op \in BinaryOps, l \in Operands, r \in Operands :
          /\ r.form = "call"
          /\ l.form = "call"
          /\ nodes = BinaryProgram(l, op, r)

\* The left operand decides: false for `and`, true for `or`.
ShortCircuits(op, val) ==
    \/ op = "and" /\ val = BoolVal(FALSE)
    \/ op = "or" /\ val = BoolVal(TRUE)

\* C11: `and` / `or` evaluates its left operand exactly once and first.  A
\* left value that is not a Bool fails with NonBoolIfCond and the right
\* operand is not evaluated.  A false left value of `and`, a true one of
\* `or`, is returned and the right operand is never evaluated: none of its
\* side effects occur.  Otherwise the right operand is evaluated exactly
\* once and its value is returned as it is, whatever its kind.
C11_ShortCircuit ==
    Finished =>
        \A l \in LogicalOperands, op \in {"and", "or"}, r \in LogicalOperands :
            nodes = LogicalProgram(l, op, r) =>
                /\ Count("expr", 60) = 1
                /\ l.val.kind # "Bool" =>
                      /\ result = Err("NonBoolIfCond", "", 51)
                      /\ Count("expr", 70) = 0
                      /\ Printed = l.prints
                /\ (l.val.kind = "Bool" /\ ShortCircuits(op, l.val)) =>
                      /\ result = Ok(l.val)
                      /\ Count("expr", 70) = 0
                      /\ Printed = l.prints
                /\ (l.val.kind = "Bool" /\ ~ShortCircuits(op, l.val)) =>
                      /\ result = Ok(r.val)
                      /\ Count("expr", 70) = 1
                      /\ First("expr", 60) < First("expr", 70)
                      /\ Printed = l.prints \o r.prints

\* `yes() and <right>` has ended with a right value that is not a Bool.
C11_Witness ==
    /\ Finished
    /\ result.ok
    /\ result.val.kind \notin {"Bool"}
    /\ Printed = << IntVal(300), IntVal(100) >>
    /\ Count("expr", 70) = 1

\* The frames that hold a binding of `name`.
Holding(name) == { f \in 1 .. Len(heap) : name \in DOMAIN heap[f].vars }

\* The value the placeholder has when the loop over `range` has ended.
FinalValue(range) == IF Len(range.end) > 0 THEN range.end[1] ELSE range.start

\* C12: a for loop creates one frame for the whole loop, a child of the
\* frame active at loop entry, declares the placeholder in it once and
\* re-assigns that binding in every iteration; no per-iteration frame holds
\* the placeholder.  So every closure declared in the loop body resolves the
\* placeholder to that one binding: called inside the iteration it sees the
\* iteration's value, called after the loop has ended each of them sees the
\* placeholder's final value, not the value at the closure's declaration.
C12_SingleLoopFrame ==
    Finished =>
        /\ \A rg \in ForRanges :
              nodes = ForPrint(rg) =>
                  /\ Cardinality(Holding("i")) = 1
                  /\ \A f \in Holding("i") : heap[f].parent = globals
        /\ \A w \in {"top", "block"}, rg \in LoopRanges :
              nodes = LoopClosures(w, rg) =>
                  /\ result = Ok(Null)
                  /\ Printed = Iterations(rg)
                               \o << IntVal(FinalValue(rg)), IntVal(FinalValue(rg)) >>
                  /\ Cardinality(Holding("i")) = 1
                  /\ Cardinality(Holding("g0")) = 1
                  /\ \A loop \in Holding("i"), outer \in Holding("g0") :
                        /\ heap[loop].parent = outer
                        /\ (w = "top") = (outer = globals)
                        /\ heap[loop].vars["i"] = IntVal(FinalValue(rg))
                        /\ \A g \in {"g0", "g1"} :
                              /\ heap[outer].vars[g].kind = "Func"
                              /\ heap[outer].vars[g].v.closure # loop
                              /\ heap[heap[outer].vars[g].v.closure].parent = loop
                        /\ heap[outer].vars["g0"].v.closure
                              # heap[outer].vars["g1"].v.closure

\* Two closures of different iterations of a loop inside a block have been
\* called after the loop.
C12_Witness ==
    /\ Finished
    /\ nodes = LoopClosures("block", ForRange(1, Some(MaxIter)))
    /\ Len(Printed) = MaxIter + 2
    /\ Printed[Len(Printed) - 1] = IntVal(MaxIter)

====
